---------------------------- MODULE Spec2Model ----------------------------
(***************************************************************************)
(* A model of the fatigue / injury-risk engine of AILeague:                *)
(*   src/fatigue_risk_estimator/fatigue_risk_estimator.py                  *)
(*       FatigueRiskEstimator (history store, periodic recomputation,      *)
(*       weighted score, logistic squashing)                               *)
(*   src/main.py  run_pipeline, step 8 (the per-frame loop) and step 11    *)
(*       (the end-of-run summary).                                         *)
(*                                                                         *)
(* Number representation.  The program computes in binary floating point;  *)
(* the model computes in fixed point on integers:                          *)
(*   a speed in km/h       is an integer number of 0.1 km/h,               *)
(*   a speed in m/s        is an integer number of 0.001 m/s,              *)
(*   a distance in m       is an integer number of m,                      *)
(*   a normalised metric   is an integer number of 0.001 (0 .. 1000),      *)
(*   a weighted score      is an integer number of 0.00001 (0 .. 100000),  *)
(*   a risk percentage     is an integer number of 0.001 % (0 .. 100000).  *)
(* Two values of the program have no number: None (an absent speed or      *)
(* risk field) and the floating-point NaN; each is a negative integer      *)
(* that no speed, distance or risk can be.                                 *)
(***************************************************************************)
EXTENDS Integers, Sequences, FiniteSets, TLC

VARIABLES
  fps,                \* FatigueRiskEstimator.fps
  window,             \* FatigueRiskEstimator.window, in frames
  history,            \* FatigueRiskEstimator.history: {pid: [speed_mps, ...]}
  risk,               \* FatigueRiskEstimator.risk:    {pid: last_risk}
  tracks,             \* tracks["players"][0 .. f_idx-1], the frames processed so far
  team_ball_control,  \* run_pipeline's list of possession labels, one per frame
  summary,            \* the summary written to stats_out
  ball,               \* per processed frame: tracks["ball"][f_idx] and owner_pid
  overlay,            \* per frame and player: the colour of the risk overlay drawn
  scored,             \* _compute_fatigue's locals: metrics, score, risk_pct
  pc                  \* where run_pipeline is: "loop", "done"; "fn", "fn_done";
                      \* "score", "score_done"; "draw", "draw_done"

vars == <<fps, window, history, risk, tracks, team_ball_control, summary,
          ball, overlay, scored, pc>>

\* ------------------------------------------------------------------ config
\* fatigue_risk_estimator.py:7   SPRINT_SPEED = 7   (m/s)
SPRINT_SPEED == 7
\* fatigue_risk_estimator.py:8   ACCEL_THRESHOLD = 2   (m/s^2)
ACCEL_THRESHOLD == 2
\* fatigue_risk_estimator.py:9   WINDOW_SEC: the rolling window, in seconds.
\* The program's configuration ("tweak freely") sets 30; the model runs the
\* same code with a window short enough to fill, overflow and be recomputed
\* within a bounded video.  It is a bound of the model.
WINDOW_SEC == 5
\* The longest video the model processes, in frames (a bound of the model).
MaxFrames == 7

\* fatigue_risk_estimator.py:11-17   METRIC_WEIGHTS, in hundredths.
METRIC_WEIGHTS ==
  [speed_drop |-> 30, sprint_count |-> 25, accel_events |-> 15,
   posture_deg |-> 20, stride_reduction |-> 10]

MetricNames ==
  {"speed_drop", "sprint_count", "accel_events", "posture_deg", "stride_reduction"}

\* Python's None (trk.get("speed") of a record without a speed; a record
\* into which no risk was injected).
None == -1
\* The floating-point NaN that 0.0 / 0.0 yields (numpy warns and goes on).
NaN == -2

\* ------------------------------------------------------------- arithmetic
Min(a, b) == IF a <= b THEN a ELSE b
Max(a, b) == IF a >= b THEN a ELSE b

\* np.clip(x, 0, 1) on a metric in thousandths; NaN stays NaN.
Clip01(x) == IF x = NaN THEN NaN ELSE Max(0, Min(1000, x))

\* The quotient num / den of two floats, in thousandths, as IEEE-754 and
\* numpy define it for a zero divisor: 0/0 is NaN, x/0 is +-inf.  The
\* infinities are only ever clipped, so they are returned already saturated
\* beyond the clip range.
FloatDiv(num, den) ==
  IF den = 0
    THEN (IF num = 0 THEN NaN ELSE IF num > 0 THEN 1000000 ELSE 0 - 1000000)
    ELSE (num * 1000) \div den

RECURSIVE SumSeq(_)
SumSeq(s) == IF s = <<>> THEN 0 ELSE Head(s) + SumSeq(Tail(s))

RECURSIVE InsertAsc(_, _)
InsertAsc(x, s) ==
  IF s = <<>> THEN <<x>>
  ELSE IF x <= Head(s) THEN <<x>> \o s
  ELSE <<Head(s)>> \o InsertAsc(x, Tail(s))

RECURSIVE SortAsc(_)
SortAsc(s) == IF s = <<>> THEN <<>> ELSE InsertAsc(Head(s), SortAsc(Tail(s)))

\* s[-k:] of Python for k >= 1: the last k elements, all of s when it is shorter.
LastK(s, k) == IF Len(s) <= k THEN s ELSE SubSeq(s, Len(s) - k + 1, Len(s))

\* np.percentile(speeds, 90) with numpy's default linear interpolation, ten
\* times the value (units of 0.0001 m/s): the virtual index is
\* 0.9 * (n - 1) = lo + r / 10 on the ascending sort (lo counted from 0).
Percentile90x10(speeds) ==
  LET srt == SortAsc(speeds)
      n   == Len(speeds)
      lo  == (9 * (n - 1)) \div 10
      r   == (9 * (n - 1)) % 10
      a   == srt[lo + 1]
      b   == IF lo + 2 <= n THEN srt[lo + 2] ELSE a
  IN  10 * a + r * (b - a)

\* e^n for the whole numbers the logistic curve meets, in units of 0.0001.
ExpWhole(n) ==
  CASE n = -5 -> 67
    [] n = -4 -> 183
    [] n = -3 -> 498
    [] n = -2 -> 1353
    [] n = -1 -> 3679
    [] n = 0  -> 10000
    [] n = 1  -> 27183
    [] n = 2  -> 73891
    [] n = 3  -> 200855
    [] n = 4  -> 545982
    [] n = 5  -> 1484132

\* e^(f / 10000) for 0 <= f < 10000, in units of 0.0001: the Taylor series,
\* ten terms.
RECURSIVE ExpFracFrom(_, _, _)
ExpFracFrom(f, k, term) ==
  IF k > 10 \/ term = 0 THEN 0
  ELSE term + ExpFracFrom(f, k + 1, (term * f) \div (10000 * k))

ExpFrac(f) == ExpFracFrom(f, 1, 10000)

\* np.exp(t) for t in units of 0.0001, -5 <= t <= 5, in units of 0.0001.
\* The product e^n * e^f is split so that no intermediate passes 2^31.
Exp(t) ==
  LET n  == t \div 10000
      f  == t % 10000
      en == ExpWhole(n)
      ef == ExpFrac(f)
  IN  ((en \div 1000) * ef) \div 10 + ((en % 1000) * ef) \div 10000


\* ------------------------------------------------------------ the metrics
\* spd / 3.6: km/h (units of 0.1 km/h) to m/s (units of 0.001 m/s).
ToMps(spd) == (spd * 1000) \div 36

\* A slice that takes the oldest half of the window (speeds[:window//2 + 1]).
RecentSpeeds_Oldest(speeds, w) ==
  SubSeq(speeds, 1, Min(Len(speeds), 0 - ((0 - w) \div 2)))

\* speeds[-self.window//2:]  Python reads -self.window//2 as (-window)//2,
\* the floor, so the slice holds the last ceil(window/2) samples.
RecentSpeeds(speeds, w) == LastK(speeds, 0 - ((0 - w) \div 2))

\* lines 75-77: the speed-drop metric, in thousandths (or NaN).
speed_drop(speeds, w) ==
  LET baseline10 == Percentile90x10(speeds)
      rec        == RecentSpeeds(speeds, w)
      k          == Len(rec)
      \* (baseline - recent) / baseline, both sides times 10 * k
  IN  Clip01(FloatDiv(baseline10 * k - 10 * SumSeq(rec), baseline10 * k))

\* A sprint count whose comparison is inverted (speeds < SPRINT_SPEED).
sprint_norm_Inverted(speeds) ==
  LET sprint_count == Cardinality({i \in DOMAIN speeds : speeds[i] < SPRINT_SPEED * 1000})
  IN  Clip01((sprint_count * 10 * 1000) \div WINDOW_SEC)

\* lines 80-81: np.sum(speeds > SPRINT_SPEED) / (WINDOW_SEC / 10), clipped.
sprint_norm(speeds) ==
  LET sprint_count == Cardinality({i \in DOMAIN speeds : speeds[i] > SPRINT_SPEED * 1000})
  IN  Clip01((sprint_count * 10 * 1000) \div WINDOW_SEC)

\* lines 84-86: np.diff(speeds) * fps > ACCEL_THRESHOLD, counted,
\* divided by WINDOW_SEC / 5, clipped.
accel_norm(speeds, f) ==
  LET accel_events ==
        Cardinality({i \in 1 .. (Len(speeds) - 1) :
                       (speeds[i + 1] - speeds[i]) * f > ACCEL_THRESHOLD * 1000})
  IN  Clip01((accel_events * 5 * 1000) \div WINDOW_SEC)

\* A weighted sum that leaves the speed-drop term out.
weighted_score_NoSpeedDrop(metrics) ==
  IF \E k \in MetricNames : metrics[k] = NaN THEN NaN
  ELSE metrics.sprint_count * METRIC_WEIGHTS.sprint_count
       + metrics.accel_events * METRIC_WEIGHTS.accel_events
       + metrics.posture_deg * METRIC_WEIGHTS.posture_deg
       + metrics.stride_reduction * METRIC_WEIGHTS.stride_reduction

\* lines 94-101: sum(metrics[k] * METRIC_WEIGHTS[k]), in units of 0.00001.
\* A NaN metric makes the sum NaN.
weighted_score(metrics) ==
  IF \E k \in MetricNames : metrics[k] = NaN THEN NaN
  ELSE metrics.speed_drop * METRIC_WEIGHTS.speed_drop
       + metrics.sprint_count * METRIC_WEIGHTS.sprint_count
       + metrics.accel_events * METRIC_WEIGHTS.accel_events
       + metrics.posture_deg * METRIC_WEIGHTS.posture_deg
       + metrics.stride_reduction * METRIC_WEIGHTS.stride_reduction

\* A logistic curve centred at 0.4 instead of 0.5.
risk_pct_Midpoint04(score) ==
  IF score = NaN THEN NaN
  ELSE 1000000000 \div (10000 + Exp(40000 - score))

\* line 104: 100 / (1 + np.exp(-10 * (score - 0.5))), in units of 0.001 %.
\* -10 * (score - 0.5) is in units of 0.0001 the number 50000 - score.
risk_pct(score) ==
  IF score = NaN THEN NaN
  ELSE 1000000000 \div (10000 + Exp(50000 - score))

\* Metrics whose posture term is filled in from the speed drop instead of
\* staying at the placeholder 0.0.
fatigue_metrics_PostureFromDrop(speeds, w, f) ==
  [speed_drop       |-> speed_drop(speeds, w),
   sprint_count     |-> sprint_norm(speeds),
   accel_events     |-> accel_norm(speeds, f),
   posture_deg      |-> speed_drop(speeds, w),
   stride_reduction |-> 0]

\* lines 88-100: the metrics of a window of speeds.
fatigue_metrics(speeds, w, f) ==
  [speed_drop       |-> speed_drop(speeds, w),
   sprint_count     |-> sprint_norm(speeds),
   accel_events     |-> accel_norm(speeds, f),
   posture_deg      |-> 0,
   stride_reduction |-> 0]

\* lines 94-105: the locals of _compute_fatigue from `metrics` on.
score_locals(metrics) ==
  [metrics  |-> metrics,
   score    |-> weighted_score(metrics),
   risk_pct |-> risk_pct(weighted_score(metrics))]

\* lines 68-105: the locals of a call of _compute_fatigue on `speeds`; a
\* call that returns at line 72 has none.
fatigue_locals(speeds, w, f) ==
  IF Len(speeds) < 5 THEN [p \in {} |-> 0]
  ELSE score_locals(fatigue_metrics(speeds, w, f))

\* _compute_fatigue with the minimum-sample threshold one too low.
compute_fatigue_Min4(speeds, w, f) ==
  IF Len(speeds) < 4 THEN 0
  ELSE risk_pct(weighted_score(fatigue_metrics(speeds, w, f)))

\* _compute_fatigue whose short-window guard falls through to the logistic of
\* a zero score instead of returning 0.0.
compute_fatigue_FloorRisk(speeds, w, f) ==
  IF Len(speeds) < 5 THEN risk_pct(0)
  ELSE risk_pct(weighted_score(fatigue_metrics(speeds, w, f)))

\* lines 68-105: _compute_fatigue on the window `speeds`.
compute_fatigue(speeds, w, f) ==
  IF Len(speeds) < 5 THEN 0
  ELSE risk_pct(weighted_score(fatigue_metrics(speeds, w, f)))

\* ------------------------------------------------------------- the inputs
\* The players the tracker reports (entity ids).
Pids == {1, 2}

\* A dict without keys (defaultdict(list), defaultdict(float), {} at start).
EmptyDict == [p \in {} |-> 0]

\* d.get(k, default)
Get(d, k, default) == IF k \in DOMAIN d THEN d[k] ELSE default

\* Speeds the speed collaborator reports, in units of 0.1 km/h:
\* standing (0 m/s), jogging (5 m/s), sprinting (10 m/s).
InputSpeed == [standing |-> 0, jogging |-> 180, sprinting |-> 360]
Standing == InputSpeed.standing
Jogging == InputSpeed.jogging
Sprinting == InputSpeed.sprinting

\* What the collaborators hand to one pass of the frame loop: the speed of
\* each player the tracker reports in the frame (None: no speed for it),
\* whether the ball was detected, and the player assign_ball_to_player picks
\* (-1: nobody is close enough).  A bounded family of frames: player 1 stands,
\* sprints, has no speed or is not tracked; player 2 jogs, has no speed or is
\* not tracked.
FrameInputs ==
  { [speeds |-> (1 :> None),                      ball |-> FALSE, owner |-> -1],
    [speeds |-> (1 :> Standing),                  ball |-> TRUE,  owner |-> -1],
    [speeds |-> (1 :> Sprinting) @@ (2 :> None),  ball |-> TRUE,  owner |-> 1],
    [speeds |-> (1 :> Standing) @@ (2 :> Jogging), ball |-> TRUE, owner |-> 2],
    [speeds |-> (2 :> Jogging),                   ball |-> FALSE, owner |-> -1] }

\* team_assigner.get_player_team: the team of a player (main.py:75-80), as
\* the label np.array(team_ball_control) holds for it beside "none".
TeamOf(pid) == IF pid = 1 THEN "1" ELSE "2"

\* The cumulative distance the speed collaborator reports with a speed, in
\* metres: it grows with every frame.
DistanceAt(f_idx, pid) == 10 * (f_idx + 1) + pid

\* The record tracks["players"][f_idx][pid] as step 8 finds it: no "risk" and
\* no "has_ball" yet.  A record without a speed has no distance either.
TrackRecord(f_idx, pid, spd) ==
  [speed    |-> spd,
   distance |-> IF spd = None THEN None ELSE DistanceAt(f_idx, pid),
   team     |-> TeamOf(pid),
   risk     |-> None,
   has_ball |-> FALSE]

\* ---------------------------------------------------------- update_metrics
\* A recompute schedule that is off by one frame.
RecomputeDue_OffByOne(frame_idx, w) == (frame_idx + 1) % w = 0

\* A recompute on every frame.
RecomputeDue_EveryFrame(frame_idx, w) == TRUE

\* line 46: frame_idx % self.window == 0 or frame_idx == 0
RecomputeDue(frame_idx, w) == frame_idx % w = 0 \/ frame_idx = 0

\* A trim that keeps the first `w` samples (h[:w]) instead of the last.
AppendTrim_KeepOldest(h, spd_mps, w) ==
  LET appended == Append(h, spd_mps)
  IN  IF Len(appended) > w THEN SubSeq(appended, 1, w) ELSE appended

\* lines 39-43: append the sample, keep the last `w`.
AppendTrim(h, spd_mps, w) ==
  LET appended == Append(h, spd_mps)
  IN  IF Len(appended) > w THEN LastK(appended, w) ELSE appended

\* line 36-37: `if spd is None: continue` -- the players of the frame that
\* the loop body goes on with.
Sampled(player_track) == {p \in DOMAIN player_track : player_track[p].speed # None}

\* An update that clears the window of a tracked player whose speed is missing.
HistoryAfter_ResetMissing(h, player_track, w) ==
  [p \in DOMAIN h \cup Sampled(player_track) |->
     IF p \in Sampled(player_track)
       THEN AppendTrim(Get(h, p, <<>>), ToMps(player_track[p].speed), w)
       ELSE IF p \in DOMAIN player_track THEN <<>> ELSE h[p]]

\* An update that forgets the players that are not in the frame's track set.
HistoryAfter_EvictAbsent(h, player_track, w) ==
  [p \in (DOMAIN h \cap DOMAIN player_track) \cup Sampled(player_track) |->
     IF p \in Sampled(player_track)
       THEN AppendTrim(Get(h, p, <<>>), ToMps(player_track[p].speed), w)
       ELSE h[p]]

\* self.history after update_metrics(frame_idx, player_track).
HistoryAfter(h, player_track, w) ==
  [p \in DOMAIN h \cup Sampled(player_track) |->
     IF p \in Sampled(player_track)
       THEN AppendTrim(Get(h, p, <<>>), ToMps(player_track[p].speed), w)
       ELSE h[p]]

\* An update that recomputes, on a scheduled frame, for every player that has
\* a window, with or without a speed in the frame.
RiskAfter_RecomputeAll(r, h, frame_idx, player_track, w, f) ==
  [p \in DOMAIN r \cup Sampled(player_track) |->
     IF RecomputeDue(frame_idx, w)
       THEN compute_fatigue(HistoryAfter(h, player_track, w)[p], w, f)
       ELSE Get(r, p, 0)]

\* self.risk after update_metrics(frame_idx, player_track): lines 46-49.
\* Reading self.risk[pid] at line 49 creates the key (defaultdict(float)).
RiskAfter(r, h, frame_idx, player_track, w, f) ==
  [p \in DOMAIN r \cup Sampled(player_track) |->
     IF p \in Sampled(player_track)
       THEN (IF RecomputeDue(frame_idx, w)
               THEN compute_fatigue(HistoryAfter(h, player_track, w)[p], w, f)
               ELSE Get(r, p, 0))
       ELSE r[p]]

\* An injection that skips a falsy risk (`if self.risk[pid]: trk["risk"] = ...`).
InjectRisk_SkipFalsy(player_track, r) ==
  [p \in DOMAIN player_track |->
     IF p \in Sampled(player_track) /\ r[p] # 0
       THEN [player_track[p] EXCEPT !.risk = r[p]]
       ELSE player_track[p]]

\* The frame's records after update_metrics: line 49 injects the risk.
InjectRisk(player_track, r) ==
  [p \in DOMAIN player_track |->
     IF p \in Sampled(player_track)
       THEN [player_track[p] EXCEPT !.risk = r[p]]
       ELSE player_track[p]]

\* ------------------------------------------------------- the possession step
\* A label that falls back to "none" whenever no owner is found, instead of
\* carrying the previous label forward.
PossessionLabel_NoCarry(labels, f_idx, inp, player_track) ==
  IF ~inp.ball \/ inp.owner = -1
    THEN "none"
    ELSE player_track[inp.owner].team

\* A label that carries the previous label forward only when the ball is
\* missing, and takes the first team when the ball has no owner.
PossessionLabel_FirstTeam(labels, f_idx, inp, player_track) ==
  IF ~inp.ball
    THEN (IF f_idx = 0 THEN "none" ELSE labels[Len(labels)])
    ELSE IF inp.owner = -1 THEN "1"
    ELSE player_track[inp.owner].team

\* main.py:90-101: the label appended to team_ball_control for the frame.
PossessionLabel(labels, f_idx, inp, player_track) ==
  IF ~inp.ball \/ inp.owner = -1
    THEN (IF f_idx = 0 THEN "none" ELSE labels[Len(labels)])
    ELSE player_track[inp.owner].team

\* main.py:97-98: player_track[owner_pid]["has_ball"] = True
MarkOwner(player_track, inp) ==
  IF inp.ball /\ inp.owner # -1
    THEN [player_track EXCEPT ![inp.owner].has_ball = TRUE]
    ELSE player_track

\* ------------------------------------------------------------ the overlay
\* A colour choice whose thresholds are exclusive (risk > 70, risk > 40).
draw_Exclusive(r) ==
  IF r = None THEN "nothing"
  ELSE IF r # NaN /\ r > 70000 THEN "red"
  ELSE IF r # NaN /\ r > 40000 THEN "amber"
  ELSE "green"

\* fatigue_risk_estimator.py:55-63: what draw(frame, bbox, risk) puts on the
\* frame -- nothing for None, else the text in the colour of line 61.  Every
\* comparison with NaN is false, so NaN falls through to green.
draw(r) ==
  IF r = None THEN "nothing"
  ELSE IF r # NaN /\ r >= 70000 THEN "red"
  ELSE IF r # NaN /\ r >= 40000 THEN "amber"
  ELSE "green"

\* main.py:111-116: the risk overlay of every record of every frame; a record
\* without a risk is skipped (trk.get("risk") is None).
RiskOverlays(trk) ==
  [f \in 1 .. Len(trk) |-> [p \in DOMAIN trk[f] |-> draw(trk[f][p].risk)]]

\* ------------------------------------------------------------- the summary
\* round(x, 1) of a risk in units of 0.001 %: units of 0.1 %.  NaN stays NaN.
Round1(x) == IF x = NaN THEN NaN ELSE (x + 50) \div 100

\* round(speed, 2) of a speed in units of 0.1 km/h: units of 0.01 km/h.
RoundSpeed(x) == x * 10

\* round(dist, 2) of a distance in metres: units of 0.01 m.
RoundDist(x) == x * 100

\* A walk that stops at the earliest record with a speed instead of the latest.
RECURSIVE FirstValidFrom(_, _, _)
FirstValidFrom(trk, pid, f) ==
  IF f > Len(trk) THEN [speed |-> 0, distance |-> 0, risk |-> 0]
  ELSE IF pid \in DOMAIN trk[f] /\ trk[f][pid].speed # None
         THEN [speed    |-> trk[f][pid].speed,
               distance |-> trk[f][pid].distance,
               risk     |-> IF trk[f][pid].risk = None THEN 0 ELSE trk[f][pid].risk]
         ELSE FirstValidFrom(trk, pid, f + 1)

LastValid_Earliest(trk, pid, f) == FirstValidFrom(trk, pid, 1)

\* main.py:128-135: walk the frames backwards from frame f (counted from 1)
\* to the first record of pid with a speed; (0.0, 0.0, 0.0) when there is none.
RECURSIVE LastValid(_, _, _)
LastValid(trk, pid, f) ==
  IF f = 0 THEN [speed |-> 0, distance |-> 0, risk |-> 0]
  ELSE IF pid \in DOMAIN trk[f] /\ trk[f][pid].speed # None
         THEN [speed    |-> trk[f][pid].speed,
               distance |-> trk[f][pid].distance,
               risk     |-> IF trk[f][pid].risk = None THEN 0 ELSE trk[f][pid].risk]
         ELSE LastValid(trk, pid, f - 1)

\* main.py:126: for pid in risk_est.risk.keys()
SummaryKeys(r) == DOMAIN r

\* main.py:125-142
MakeSummary(r, trk) ==
  [p \in SummaryKeys(r) |->
     LET snap == LastValid(trk, p, Len(trk))
     IN  [name       |-> <<"P", p>>,
          speed_kmh  |-> RoundSpeed(snap.speed),
          distance_m |-> RoundDist(snap.distance),
          risk_pct   |-> Round1(snap.risk)]]

\* -------------------------------------------------------------- the machine
\* After FatigueRiskEstimator(fps) and `team_ball_control = []` (main.py:69,
\* 84).  main.py passes fps=24; the model runs one frame per second, so that
\* the window is WINDOW_SEC frames.
Init ==
  /\ fps = 1
  /\ window = WINDOW_SEC * fps
  /\ history = EmptyDict
  /\ risk = EmptyDict
  /\ tracks = <<>>
  /\ team_ball_control = <<>>
  /\ summary = EmptyDict
  /\ ball = <<>>
  /\ overlay = <<>>
  /\ scored = EmptyDict
  /\ pc = "loop"

\* One pass of the loop of main.py:86-101 on frame f_idx = Len(tracks).
ProcessFrame(inp) ==
  /\ pc = "loop"
  /\ Len(tracks) < MaxFrames
  /\ LET f_idx        == Len(tracks)
         player_track == [p \in DOMAIN inp.speeds |-> TrackRecord(f_idx, p, inp.speeds[p])]
         r            == RiskAfter(risk, history, f_idx, player_track, window, fps)
     IN  /\ history' = HistoryAfter(history, player_track, window)
         /\ risk' = r
         /\ tracks' = Append(tracks, MarkOwner(InjectRisk(player_track, r), inp))
         /\ team_ball_control' =
              Append(team_ball_control,
                     PossessionLabel(team_ball_control, f_idx, inp, player_track))
         /\ ball' = Append(ball, [detected |-> inp.ball,
                                  owner    |-> IF inp.ball THEN inp.owner ELSE None])
  /\ UNCHANGED <<fps, window, summary, overlay, scored, pc>>

\* The video is over (it has at least one frame, main.py:39-40): steps 9-11,
\* the risk overlays and the summary.  The pixels and the saved video are not
\* part of the model's state.
WriteSummary ==
  /\ pc = "loop"
  /\ Len(tracks) >= 1
  /\ overlay' = RiskOverlays(tracks)
  /\ summary' = MakeSummary(risk, tracks)
  /\ pc' = "done"
  /\ UNCHANGED <<fps, window, history, risk, tracks, team_ball_control, ball, scored>>

Next ==
  \/ \E inp \in FrameInputs : ProcessFrame(inp)
  \/ WriteSummary

Spec == Init /\ [][Next]_vars

\* ------------------------------------------- _compute_fatigue on its own
\* np.linspace(hi, lo, n) in m/s: n samples from hi to lo in equal steps.
Ramp(hi, lo, n) ==
  [i \in 1 .. n |->
     IF n = 1 THEN hi * 1000
     ELSE hi * 1000 + ((lo - hi) * 1000 * (i - 1)) \div (n - 1)]

\* End points of the ramps, in m/s.
RampSpeeds == {0, 1, 2, 5, 7, 9, 10}

\* History Windows an estimator can hold: ramps of up to window_size samples,
\* rising, falling or level.
FnWindows(w) ==
  {Ramp(hi, lo, n) : hi \in RampSpeeds, lo \in RampSpeeds, n \in 1 .. w}

\* An estimator that holds a History Window for player 1, whose risk is
\* still the 0.0 of frame 0.
InitFn ==
  /\ fps = 1
  /\ window = WINDOW_SEC * fps
  /\ history \in {(1 :> h) : h \in FnWindows(WINDOW_SEC)}
  /\ risk = (1 :> 0)
  /\ tracks = <<>>
  /\ team_ball_control = <<>>
  /\ summary = EmptyDict
  /\ ball = <<>>
  /\ overlay = <<>>
  /\ scored = EmptyDict
  /\ pc = "fn"

\* line 47: self.risk[pid] = self._compute_fatigue(pid)
Recompute(pid) ==
  /\ pc = "fn"
  /\ pid \in DOMAIN history
  /\ risk' = [risk EXCEPT ![pid] = compute_fatigue(history[pid], window, fps)]
  /\ scored' = fatigue_locals(history[pid], window, fps)
  /\ pc' = "fn_done"
  /\ UNCHANGED <<fps, window, history, tracks, team_ball_control, summary,
                 ball, overlay>>

NextFn == \E pid \in Pids : Recompute(pid)

SpecFn == InitFn /\ [][NextFn]_vars

\* ------------------------------------------- the scorer on its own
\* Values of the sprint-count and acceleration-event metrics, in thousandths.
MetricGrid == {0, 333, 500, 667, 1000}

\* Values of the speed-drop metric: every thousandth of [0, 1], and the NaN
\* of a zero baseline.
SpeedDropValues == (0 .. 1000) \cup {NaN}

\* The metrics dict of lines 94-100: posture and stride are the constants of
\* lines 90-91.
ScoreInputs ==
  {[speed_drop |-> a, sprint_count |-> b, accel_events |-> c,
    posture_deg |-> 0, stride_reduction |-> 0] :
     a \in SpeedDropValues, b \in MetricGrid, c \in MetricGrid}

\* _compute_fatigue has built `metrics` (line 100).
InitScore ==
  /\ fps = 1
  /\ window = WINDOW_SEC * fps
  /\ history = EmptyDict
  /\ risk = EmptyDict
  /\ tracks = <<>>
  /\ team_ball_control = <<>>
  /\ summary = EmptyDict
  /\ ball = <<>>
  /\ overlay = <<>>
  /\ scored \in {[metrics |-> m] : m \in ScoreInputs}
  /\ pc = "score"

\* lines 101-105: the weighted score and the risk percentage.
Score ==
  /\ pc = "score"
  /\ scored' = score_locals(scored.metrics)
  /\ pc' = "score_done"
  /\ UNCHANGED <<fps, window, history, risk, tracks, team_ball_control, summary,
                 ball, overlay>>

NextScore == Score

SpecScore == InitScore /\ [][NextScore]_vars

\* ------------------------------------------------------- draw on its own
\* Risk values a record can carry, in units of 0.001 %: none, NaN, every half
\* per cent from 0 to 100, and the neighbours of the two colour thresholds.
DrawRisks ==
  {None, NaN} \cup {k * 500 : k \in 0 .. 200} \cup {39999, 40001, 69999, 70001}

\* A one-frame video whose only record carries the risk to draw.
InitDraw ==
  /\ fps = 1
  /\ window = WINDOW_SEC * fps
  /\ history = EmptyDict
  /\ risk = EmptyDict
  /\ tracks \in {<<(1 :> [TrackRecord(0, 1, Jogging) EXCEPT !.risk = r])>> : r \in DrawRisks}
  /\ team_ball_control = <<>>
  /\ summary = EmptyDict
  /\ ball = <<>>
  /\ overlay = <<>>
  /\ scored = EmptyDict
  /\ pc = "draw"

\* main.py:111-116: the risk overlay pass.
DrawOverlays ==
  /\ pc = "draw"
  /\ overlay' = RiskOverlays(tracks)
  /\ pc' = "draw_done"
  /\ UNCHANGED <<fps, window, history, risk, tracks, team_ball_control, summary,
                 ball, scored>>

NextDraw == DrawOverlays

SpecDraw == InitDraw /\ [][NextDraw]_vars


\* ===================================================================== claims
\* What the claims speak of, read off the state.

\* The frame processed last, and its records (after the loop body).
LastIdx == Len(tracks) - 1
LastRecords == tracks[Len(tracks)]

\* The stored Risk Value of p; defaultdict(float) reads 0.0 for a missing key.
Stored(r, p) == Get(r, p, 0)

\* Frames (counted from 1) in which p is tracked with a speed.
ValidFrames(p) ==
  {f \in 1 .. Len(tracks) : p \in DOMAIN tracks[f] /\ tracks[f][p].speed # None}

\* Frames (counted from 1) in which p is tracked at all.
SeenFrames(p) == {f \in 1 .. Len(tracks) : p \in DOMAIN tracks[f]}

\* Every sample recorded for p by the first f frames, in m/s, in arrival order.
RECURSIVE SamplesUpTo(_, _)
SamplesUpTo(p, f) ==
  IF f = 0 THEN <<>>
  ELSE IF p \in DOMAIN tracks[f] /\ tracks[f][p].speed # None
         THEN Append(SamplesUpTo(p, f - 1), (tracks[f][p].speed * 1000) \div 36)
         ELSE SamplesUpTo(p, f - 1)

AllSamples(p) == SamplesUpTo(p, Len(tracks))

MaxOf(S) == CHOOSE x \in S : \A y \in S : y <= x

\* A frame has just been added by this step.
FrameStep == Len(tracks') = Len(tracks) + 1

\* p's Risk Value was recomputed by the frame processed last.
RecomputedLast(p) ==
  /\ Len(tracks) >= 1
  /\ LastIdx % window = 0
  /\ p \in DOMAIN LastRecords
  /\ LastRecords[p].speed # None

IsPercent(x) == x >= 0 /\ x <= 100000

\* C1: for every entity the History Window is never longer than window_size
\* and always holds exactly the most recent window_size recorded samples
\* (each speed / 3.6), in arrival order -- all of them while there are fewer.
C1_WindowIsLatestSamples ==
  \A p \in Pids :
    LET h == Get(history, p, <<>>)
        all == AllSamples(p)
    IN  /\ Len(h) <= window
        /\ h = IF Len(all) > window
                 THEN SubSeq(all, Len(all) - window + 1, Len(all))
                 ELSE all

\* More than window_size samples were recorded for player 1, fast and slow
\* ones among those kept.
C1_Witness ==
  /\ Len(AllSamples(1)) > window
  /\ \E i, j \in DOMAIN history[1] : history[1][i] = 0 /\ history[1][j] = 10000

C5_NeverSampledHasZeroRow ==
  pc = "done" =>
    \A p \in Pids :
      (SeenFrames(p) # {} /\ ValidFrames(p) = {})
        => /\ p \in DOMAIN summary
           /\ summary[p].speed_kmh = 0
           /\ summary[p].distance_m = 0
           /\ summary[p].risk_pct = 0

\* C6 (as claimed): when _compute_fatigue has run on a window of 5 or more
\* samples whose 90th-percentile baseline is 0, the speed-drop metric is 0 and
\* the risk it returned is a number, not NaN.
C6_ZeroBaselineGuarded ==
  \A p \in Pids :
    (RecomputedLast(p) /\ Len(history[p]) >= 5 /\ Percentile90x10(history[p]) = 0)
      => /\ speed_drop(history[p], window) = 0
         /\ IsPercent(risk[p])

\* C7 (as claimed): every stored Risk Value and every risk field written into
\* a record is a number in [0, 100].
C7_RiskInRange ==
  /\ \A p \in DOMAIN risk : IsPercent(risk[p])
  /\ \A f \in 1 .. Len(tracks) : \A p \in DOMAIN tracks[f] :
       tracks[f][p].risk # None => IsPercent(tracks[f][p].risk)

\* C8: a risk computed from a History Window of fewer than 5 samples is
\* exactly 0.0, whatever the samples are.
C8_ShortWindowZero ==
  \A p \in Pids :
    (RecomputedLast(p) /\ Len(history[p]) < 5) => risk[p] = 0

\* Frame window_size recomputed the risk of player 1 from four samples, a
\* sprint among them.
C8_Witness ==
  /\ Len(tracks) = window + 1
  /\ RecomputedLast(1)
  /\ Len(history[1]) = 4
  /\ \E i \in DOMAIN history[1] : history[1][i] = 10000

\* C10: for every entity with a stored Risk Value, the summary's speed,
\* distance and risk are those of the highest-indexed frame in which the
\* entity is tracked with a speed (rounded as the summary rounds).
C10_SummaryFromLatestValidFrame ==
  pc = "done" =>
    \A p \in DOMAIN risk :
      /\ ValidFrames(p) # {}
      /\ p \in DOMAIN summary
      /\ LET rec == tracks[MaxOf(ValidFrames(p))][p]
         IN  /\ summary[p].speed_kmh = rec.speed * 10
             /\ summary[p].distance_m = rec.distance * 100
             /\ summary[p].risk_pct =
                  (IF rec.risk = NaN THEN NaN ELSE (rec.risk + 50) \div 100)

\* The summary of a video in which player 1 has a speed in frames 0 ..
\* window_size (zero risk before the last of them, more in it) and none in
\* the frame after.
C10_Witness ==
  /\ pc = "done"
  /\ Len(tracks) = window + 2
  /\ ValidFrames(1) = 1 .. (window + 1)
  /\ 1 \in DOMAIN tracks[window + 2]
  /\ tracks[1][1].risk = 0
  /\ tracks[window + 1][1].risk > 0
  /\ summary[1].risk_pct > 0

\* C9 (as claimed): when risk is recomputed from a full window of samples
\* falling in equal steps from 9 m/s to 1 m/s, the speed-drop metric is close
\* to 1.0 (0.9 or more) and the risk is above 70 %.
C9_RampIsHighRisk ==
  (pc = "fn_done" /\ history[1] = Ramp(9, 1, window))
    => /\ speed_drop(history[1], window) >= 900
       /\ risk[1] > 70000

\* C9 (amended): for that window the speed-drop metric is between 0.6 and 0.7
\* (the baseline is 8.2 m/s, the recent half averages about 3 m/s) and the
\* risk is between 30 % and 40 %, below 70.
C9_RampIsModerateRisk ==
  (pc = "fn_done" /\ history[1] = Ramp(9, 1, window))
    => /\ speed_drop(history[1], window) >= 600
       /\ speed_drop(history[1], window) <= 700
       /\ risk[1] > 30000
       /\ risk[1] < 40000

\* The risk of the full falling ramp has been recomputed.
C9_Witness ==
  /\ pc = "fn_done"
  /\ history[1] = Ramp(9, 1, window)
  /\ Len(history[1]) = window
  /\ risk[1] # 0

\* C11: the possession label of a frame without a ball detection, or whose
\* ball is assigned to nobody (-1), is the label of the frame before, or
\* "none" for frame 0; the label of any other frame is the team of the
\* assigned owner.
C11_PossessionCarryForward ==
  /\ Len(team_ball_control) = Len(ball)
  /\ \A f \in 1 .. Len(ball) :
       IF ~ball[f].detected \/ ball[f].owner = -1
         THEN team_ball_control[f] =
                (IF f = 1 THEN "none" ELSE team_ball_control[f - 1])
         ELSE team_ball_control[f] = tracks[f][ball[f].owner].team

\* Frame 0 has no ball ("none"); player 2 owns the ball in frame 1; frame 2
\* has no ball and frame 3 a ball without owner, and both carry "2" forward.
C11_Witness ==
  /\ Len(ball) >= 4
  /\ ~ball[1].detected /\ team_ball_control[1] = "none"
  /\ ball[2].detected /\ ball[2].owner = 2
  /\ ~ball[3].detected /\ team_ball_control[3] = "2"
  /\ ball[4].detected /\ ball[4].owner = -1 /\ team_ball_control[4] = "2"

\* C12: for a risk that is present, the overlay is red when risk >= 70,
\* amber when 40 <= risk < 70 and green when risk < 40; for an absent risk
\* (None) nothing is drawn.
C12_OverlayColour ==
  pc = "draw_done" =>
    \A f \in 1 .. Len(tracks) : \A p \in DOMAIN tracks[f] :
      LET r == tracks[f][p].risk
          c == overlay[f][p]
      IN  /\ (r = None) = (c = "nothing")
          /\ (r # None /\ r # NaN) =>
               /\ (r >= 70000) = (c = "red")
               /\ (r >= 40000 /\ r < 70000) = (c = "amber")
               /\ (r < 40000) = (c = "green")

\* A risk of exactly 70 % has been drawn, in red.
C12_Witness ==
  /\ pc = "draw_done"
  /\ tracks[1][1].risk = 70000
  /\ overlay[1][1] = "red"

\* C13: for a History Window of 5 or more samples, all the same positive
\* speed below the sprint threshold, the speed-drop, sprint-count and
\* acceleration-event metrics are 0, so the weighted score is 0 and the risk
\* is the logistic value at score 0, about 0.7 % (between 0.6 % and 0.7 %).
C13_LevelWindowScoresZero ==
  (/\ pc = "fn_done"
   /\ Len(history[1]) >= 5
   /\ \A i \in DOMAIN history[1] : history[1][i] = history[1][1]
   /\ history[1][1] > 0
   /\ history[1][1] < SPRINT_SPEED * 1000)
    => /\ scored.metrics.speed_drop = 0
       /\ scored.metrics.sprint_count = 0
       /\ scored.metrics.accel_events = 0
       /\ scored.score = 0
       /\ scored.risk_pct = risk[1]
       /\ risk[1] > 600 /\ risk[1] < 700

\* The risk of a full window of 2 m/s samples has been recomputed.
C13_Witness ==
  /\ pc = "fn_done"
  /\ Len(history[1]) >= 5
  /\ \A i \in DOMAIN history[1] : history[1][i] = 2000
  /\ risk[1] = 669

\* The speed-drop values a scored one is compared with: the next thousandth
\* and the quarters of [0, 1].
LargerDrops(sd) == {x \in {sd + 1, 250, 500, 750, 1000} : x > sd /\ x <= 1000}

\* C14: with the sprint-count, acceleration-event, posture and stride metrics
\* held fixed, a strictly larger speed-drop metric gives a strictly larger
\* weighted score and a strictly larger risk percentage.
C14_RiskIncreasesWithSpeedDrop ==
  (pc = "score_done" /\ scored.metrics.speed_drop # NaN) =>
    \A sd2 \in LargerDrops(scored.metrics.speed_drop) :
      LET s2 == weighted_score([scored.metrics EXCEPT !.speed_drop = sd2])
      IN  /\ s2 > scored.score
          /\ risk_pct(s2) > scored.risk_pct

\* The metrics that score 0 have been scored: the flattest end of the curve.
C14_Witness ==
  /\ pc = "score_done"
  /\ scored.metrics.speed_drop = 0
  /\ scored.metrics.sprint_count = 0
  /\ scored.metrics.accel_events = 0
  /\ scored.risk_pct = 669

RECURSIVE SumOver(_, _)
SumOver(f, S) ==
  IF S = {} THEN 0
  ELSE LET k == CHOOSE x \in S : TRUE IN f[k] + SumOver(f, S \ {k})

\* C15: the five weights of METRIC_WEIGHTS sum to 1.0 (100 hundredths), and
\* a weighted score of exactly 0.5 is mapped to a risk of exactly 50.0 %.
C15_WeightsAndMidpoint ==
  pc = "score_done" =>
    /\ DOMAIN METRIC_WEIGHTS = MetricNames
    /\ SumOver(METRIC_WEIGHTS, MetricNames) = 100
    /\ scored.score = 50000 => scored.risk_pct = 50000

\* Metrics whose weighted score is exactly 0.5 have been scored.
C15_Witness ==
  /\ pc = "score_done"
  /\ scored.metrics.speed_drop = 1000
  /\ scored.score = 50000
  /\ scored.risk_pct = 50000

\* C16: a call of update_metrics changes the History Window of an entity
\* with a speed in the frame only by appending that sample at the end and
\* dropping the oldest sample when the window overflows; the window of an
\* entity whose speed is missing, or that is not in the frame, is left as it
\* is (no key is created for it either), and no other step touches a window.
C16_WindowOnlyAppended ==
  [][ \A p \in Pids :
        LET h   == Get(history, p, <<>>)
            new == tracks'[Len(tracks')]
        IN  IF FrameStep /\ p \in DOMAIN new /\ new[p].speed # None
              THEN LET appended == Append(h, (new[p].speed * 1000) \div 36)
                   IN  /\ p \in DOMAIN history'
                       /\ history'[p] = IF Len(appended) > window
                                          THEN Tail(appended)
                                          ELSE appended
              ELSE /\ (p \in DOMAIN history') = (p \in DOMAIN history)
                   /\ Get(history', p, <<>>) = h ]_vars

\* The last frame gave player 1 a sample that pushed the oldest one out of a
\* full window, and tracked player 2 without a speed, whose window is kept.
C16_Witness ==
  /\ Len(tracks) = window + 1
  /\ ValidFrames(1) = 1 .. (window + 1)
  /\ Len(history[1]) = window
  /\ history[1][window] = 10000
  /\ history[1][1] = 0
  /\ 2 \in DOMAIN LastRecords
  /\ LastRecords[2].speed = None
  /\ 2 \in DOMAIN history
  /\ Len(history[2]) = window

C18_SummaryRiskIsStoredRisk ==
  /\ \A p \in DOMAIN risk :
       /\ ValidFrames(p) # {}
       /\ tracks[MaxOf(ValidFrames(p))][p].risk = risk[p]
  /\ pc = "done" =>
       \A p \in DOMAIN summary :
         /\ p \in DOMAIN risk
         /\ summary[p].risk_pct = Round1(risk[p])

\* Player 2 got a non-zero Risk Value at frame window_size, the last frame
\* in which it had a speed, and the run went on for a frame without it.
C18_Witness ==
  /\ pc = "done"
  /\ Len(tracks) = window + 2
  /\ ValidFrames(2) = 1 .. (window + 1)
  /\ risk[2] > 0
  /\ summary[2].risk_pct = Round1(risk[2])

\* C19: in every reachable state the entities with a stored Risk Value are
\* the entities with a History Window, every such window is non-empty, and
\* they are the entities that had a speed in some processed frame; no step
\* removes an entity from either dict.
C19_KeysAreSampledEntities ==
  /\ [](/\ DOMAIN risk = DOMAIN history
        /\ DOMAIN history = {p \in Pids : ValidFrames(p) # {}}
        /\ \A p \in DOMAIN history : history[p] # <<>>)
  /\ [][/\ DOMAIN risk \subseteq DOMAIN risk'
        /\ DOMAIN history \subseteq DOMAIN history']_vars

\* Player 1 was tracked without a speed in frame 0, both players have had a
\* speed since, and player 2 is not in the last frame.
C19_Witness ==
  /\ Len(tracks) >= 3
  /\ tracks[1][1].speed = None
  /\ DOMAIN risk = {1, 2}
  /\ DOMAIN history = {1, 2}
  /\ 2 \notin DOMAIN LastRecords

\* C20: after frames 0..k there are k+1 possession labels, one per frame;
\* update_metrics has run once on each of them in frame order (every record
\* with a speed carries a risk, and each window is the tail of the entity's
\* samples in frame order); every label is "none" or the team of a player
\* that was assigned as ball owner in a frame up to its own.
C20_OneLabelPerFrame ==
  /\ Len(team_ball_control) = Len(tracks)
  /\ Len(ball) = Len(tracks)
  /\ \A f \in 1 .. Len(tracks) :
       \A p \in DOMAIN tracks[f] :
         (tracks[f][p].speed # None) = (tracks[f][p].risk # None)
  /\ \A p \in DOMAIN history : history[p] = LastK(AllSamples(p), window)
  /\ \A f \in 1 .. Len(team_ball_control) :
       \/ team_ball_control[f] = "none"
       \/ \E g \in 1 .. f :
            /\ ball[g].detected
            /\ ball[g].owner \in DOMAIN tracks[g]
            /\ tracks[g][ball[g].owner].has_ball
            /\ tracks[g][ball[g].owner].team = team_ball_control[f]

\* A run whose labels start with "none", name both teams, and end on a frame
\* without a ball.
C20_Witness ==
  /\ Len(team_ball_control) = 4
  /\ team_ball_control[1] = "none"
  /\ team_ball_control[2] = "1"
  /\ team_ball_control[3] = "2"
  /\ ~ball[4].detected
  /\ team_ball_control[4] = "2"

\* C21: the posture and stride metrics are 0, so whenever a Risk Value is
\* computed from a History Window of 5 or more samples and is not the NaN of
\* a zero baseline, the weighted score lies in [0, 0.70] and the risk lies
\* between the logistic of 0 (100/(1+e^5), 0.669 %) and the logistic of 0.70
\* (100/(1+e^-2), 88.08 % to the model's rounding).
C21_ScoreAndRiskBounds ==
  /\ risk_pct(0) = 669
  /\ risk_pct(70000) >= 88075 /\ risk_pct(70000) <= 88085
  /\ \A p \in DOMAIN risk :
       (RecomputedLast(p) /\ Len(history[p]) >= 5 /\ risk[p] # NaN) =>
          LET loc == fatigue_locals(history[p], window, fps)
          IN  /\ loc.metrics.posture_deg = 0
              /\ loc.metrics.stride_reduction = 0
              /\ loc.score >= 0 /\ loc.score <= 70000
              /\ risk[p] = loc.risk_pct
              /\ risk[p] >= risk_pct(0)
              /\ risk[p] <= risk_pct(70000)
  /\ \A f \in 1 .. Len(tracks) :
       \A p \in DOMAIN tracks[f] :
         \/ tracks[f][p].risk \in {None, NaN, 0}
         \/ /\ tracks[f][p].risk >= risk_pct(0)
            /\ tracks[f][p].risk <= risk_pct(70000)

\* Player 1 stood, sprinted once and stood again: at frame window_size all
\* three computed metrics are 1.0, the score is 0.70 and the risk is the
\* upper bound.
C21_Witness ==
  /\ Len(tracks) = window + 1
  /\ RecomputedLast(1)
  /\ Len(history[1]) = window
  /\ fatigue_locals(history[1], window, fps).metrics.speed_drop = 1000
  /\ fatigue_locals(history[1], window, fps).score = 70000
  /\ risk[1] = risk_pct(70000)

=============================================================================
